---- MODULE Spec2Model ----
(***************************************************************************)
(* Model of the data migration BackFillCurrentEnvironmentId1686829426671   *)
(* (server/data-migrations/1686829426671-BackFillCurrentEnvironmentId.ts). *)
(*                                                                         *)
(* The relational store holds Organization, AppEnvironment, App and        *)
(* AppVersion records.  up() runs backFillNewColumn inside the migration   *)
(* framework's transaction; backFillNewColumn loads every Organization     *)
(* with its environments and, for each one, loads every App with its       *)
(* versions and calls manager.update for each version WITHOUT awaiting the *)
(* returned promise.  The updates therefore stay in flight while the       *)
(* Driver goes on; the store settles them one by one, in the order they    *)
(* were issued on the single connection, at a moment the code does not     *)
(* control.  No handler is attached to the promise of an update: when the  *)
(* store rejects one, node ends the process on the unhandled rejection     *)
(* (its default), wherever the Driver stands.  An action of the Driver is  *)
(* one run-to-completion segment of the async function: from the           *)
(* resolution of one awaited promise to the next await, return or throw.   *)
(***************************************************************************)
EXTENDS Naturals, Sequences, FiniteSets

\* ------------------------------------------------------------------ bounds
MaxOrgs == 2
MaxEnvs == 2
MaxApps == 2
MaxVersions == 2
MaxRuns == 2

\* The SQL NULL of app_versions.current_environment_id.
Null == 0

\* The value of Array.prototype.find when no element matches.
Undefined == [undefined |-> TRUE]

VARIABLES
    organizations,      \* set of Organization ids in the store
    appEnvironments,    \* AppEnvironment id -> [organizationId, isDefault]
    apps,               \* App id -> [organizationId]
    appVersions,        \* AppVersion id -> [appId, currentEnvironmentId]
    phase,              \* the transaction: "idle", "running", "committed", "rolledBack"
    process,            \* the node process that runs up(): "alive", "exited"
    pc,                 \* position of backFillNewColumn
    error,              \* what up() rejected with: "none", "TypeError", "LoadFailure"
    orgQueue,           \* `organizations` of line 13 from the one being iterated on
    productionEnvironment, \* line 19
    pending,            \* updates issued and not yet settled by the store
    txnSnapshot,        \* appVersions when the running transaction began
    runs,               \* number of times up() was invoked
    lastCall,           \* the entry point the framework called last
    initial,            \* the store before the first run (history)
    afterFirstRun,      \* how the first run ended, taken when the second starts (history)
    rejected,           \* the store rejected an update of the latest run (history)
    issued              \* <<Organization, AppVersion>> -> updates issued for the
                        \* AppVersion in the pass of the Organization, latest run (history)

store == <<organizations, appEnvironments, apps, appVersions>>
driver == <<pc, orgQueue, productionEnvironment, error>>
history == <<initial, afterFirstRun, rejected, issued>>
vars == <<store, driver, phase, process, pending, txnSnapshot, runs, lastCall, history>>

\* ----------------------------------------------------------------- helpers
\* Every order in which the store may return the rows of S (no ORDER BY).
Orders(S) ==
    {s \in [1..Cardinality(S) -> S] : \A x \in S : \E i \in 1..Cardinality(S) : s[i] = x}

EnvironmentsOf(o) == {e \in DOMAIN appEnvironments : appEnvironments[e].organizationId = o}
VersionsOf(a) == {v \in DOMAIN appVersions : appVersions[v].appId = a}
DefaultsOf(o) == {e \in EnvironmentsOf(o) : appEnvironments[e].isDefault}

RECURSIVE Flatten(_)
Flatten(ss) == IF ss = <<>> THEN <<>> ELSE Head(ss) \o Flatten(Tail(ss))

\* The first environment loaded, whatever its flag.
ArrayFindDefault_First(envs) ==
    IF envs = <<>> THEN Undefined ELSE Head(envs)

\* Array.prototype.find((appEnvironment) => appEnvironment.isDefault)
RECURSIVE ArrayFindDefault(_)
ArrayFindDefault(envs) ==
    IF envs = <<>> THEN Undefined
    ELSE IF Head(envs).isDefault THEN Head(envs)
    ELSE ArrayFindDefault(Tail(envs))

\* manager.find(Organization, {relations: ['appEnvironments']}): every
\* Organization with its environments, rows in an order the store chooses.
FindOrganizationsResults ==
    LET envOrders == UNION {Orders(EnvironmentsOf(o)) : o \in organizations}
        choices == {f \in [organizations -> envOrders] :
                       \A o \in organizations : f[o] \in Orders(EnvironmentsOf(o))}
    IN  {[i \in 1..Cardinality(organizations) |->
             [id |-> p[i],
              appEnvironments |->
                  [k \in 1..Len(f[p[i]]) |->
                      [id |-> f[p[i]][k],
                       isDefault |-> appEnvironments[f[p[i]][k]].isDefault]]]] :
            p \in Orders(organizations), f \in choices}

\* The load of the Apps restricted to the Organization being iterated
\* (where: {organizationId: organization.id}).
FindAppsResults_Scoped ==
    LET A == {a \in DOMAIN apps : apps[a].organizationId = Head(orgQueue).id}
        verOrders == UNION {Orders(VersionsOf(a)) : a \in A}
        choices == {f \in [A -> verOrders] : \A a \in A : f[a] \in Orders(VersionsOf(a))}
    IN  {Flatten([i \in 1..Cardinality(A) |-> f[p[i]]]) : p \in Orders(A), f \in choices}

\* manager.find(App, {relations: ['appVersions']}): EVERY App of the store
\* (no where clause), each with its versions.  The nested loops of lines
\* 24-25 visit the versions app by app: the result is given as that visit
\* order.
FindAppsResults ==
    LET A == DOMAIN apps
        verOrders == UNION {Orders(VersionsOf(a)) : a \in A}
        choices == {f \in [A -> verOrders] : \A a \in A : f[a] \in Orders(VersionsOf(a))}
    IN  {Flatten([i \in 1..Cardinality(A) |-> f[p[i]]]) : p \in Orders(A), f \in choices}

\* A write that replaces the row instead of patching one column of it.
ApplyUpdate_ReplacesRow(versions, w) ==
    [v \in DOMAIN versions |->
        IF v = w.id
        THEN [appId |-> Null, currentEnvironmentId |-> w.currentEnvironmentId]
        ELSE versions[v]]

\* manager.update(AppVersion, {id}, {currentEnvironmentId}) taking effect.
ApplyUpdate(versions, w) ==
    [v \in DOMAIN versions |->
        IF v = w.id
        THEN [versions[v] EXCEPT !.currentEnvironmentId = w.currentEnvironmentId]
        ELSE versions[v]]

\* The updates the nested loops of lines 24-35 issue for the visit order
\* `versions`: one per AppVersion, all carrying productionEnvironment.id.
\* organizationId is not sent to the store: it records the pass.
IssuedUpdates(versions, organization, environment) ==
    [i \in 1..Len(versions) |->
        [id |-> versions[i],
         currentEnvironmentId |-> environment.id,
         organizationId |-> organization.id]]

NonDecreasing(f, field) ==
    \A i, j \in DOMAIN f : i < j => f[i][field] <= f[j][field]

\* -------------------------------------------------------------------- Init
\* Any store within the bounds.  Ids are labels: environments, apps and
\* versions are numbered owner by owner.
Init ==
    /\ \E nO \in 0..MaxOrgs, nE \in 0..MaxEnvs, nA \in 0..MaxApps, nV \in 0..MaxVersions :
        /\ organizations = 1..nO
        /\ appEnvironments \in [1..nE -> [organizationId : 1..nO, isDefault : BOOLEAN]]
        /\ apps \in [1..nA -> [organizationId : 1..nO]]
        /\ appVersions \in [1..nV -> [appId : 1..nA, currentEnvironmentId : {Null} \cup 1..nE]]
    /\ NonDecreasing(appEnvironments, "organizationId")
    /\ NonDecreasing(apps, "organizationId")
    /\ NonDecreasing(appVersions, "appId")
    /\ phase = "idle"
    /\ process = "alive"
    /\ pc = "idle"
    /\ error = "none"
    /\ orgQueue = <<>>
    /\ productionEnvironment = Undefined
    /\ pending = <<>>
    /\ txnSnapshot = appVersions
    /\ runs = 0
    /\ lastCall = "none"
    /\ initial = [organizations |-> organizations, appEnvironments |-> appEnvironments,
                  apps |-> apps, appVersions |-> appVersions]
    /\ afterFirstRun = [appVersions |-> appVersions, phase |-> "idle", rejected |-> FALSE]
    /\ rejected = FALSE
    /\ issued = [p \in organizations \X DOMAIN appVersions |-> 0]

\* ----------------------------------------------------------------- actions
\* The framework opens a transaction and calls up() (lines 7-10), which
\* calls backFillNewColumn, which runs to the await of line 13.  A run of
\* the migrations is a process of its own: the updates a previous run left
\* in flight were executed or lost with its connection before this one.
Up ==
    /\ phase \in {"idle", "committed", "rolledBack"}
    /\ pending = <<>>
    /\ runs < MaxRuns
    /\ phase' = "running"
    /\ process' = "alive"
    /\ pc' = "findOrganizations"
    /\ error' = "none"
    /\ runs' = runs + 1
    /\ lastCall' = "up"
    /\ txnSnapshot' = appVersions
    /\ afterFirstRun' = IF runs = 1
                        THEN [appVersions |-> appVersions, phase |-> phase,
                              rejected |-> rejected]
                        ELSE afterFirstRun
    /\ rejected' = FALSE
    /\ issued' = [p \in DOMAIN issued |-> 0]
    /\ orgQueue' = <<>>
    /\ productionEnvironment' = Undefined
    /\ UNCHANGED <<store, pending, initial>>

\* The outer loop with the resolved environment kept in a variable declared
\* outside the loop and looked up only while it is still unset.
LoopOrganizations_AmbientDefault(queue) ==
    /\ orgQueue' = queue
    /\ UNCHANGED error
    /\ IF queue = <<>>
       THEN /\ pc' = "done"
            /\ UNCHANGED productionEnvironment
       ELSE /\ pc' = "findApps"
            /\ productionEnvironment' =
                   IF productionEnvironment # Undefined THEN productionEnvironment
                   ELSE ArrayFindDefault(Head(queue).appEnvironments)

\* Lines 18-20 from the head of the outer loop over `queue`: either the
\* loop is exhausted and backFillNewColumn returns (line 37), or the default
\* environment of the next Organization is looked up and the load of the
\* Apps is awaited.
LoopOrganizations(queue) ==
    /\ orgQueue' = queue
    /\ UNCHANGED error
    /\ IF queue = <<>>
       THEN /\ pc' = "done"
            /\ UNCHANGED productionEnvironment
       ELSE /\ pc' = "findApps"
            /\ productionEnvironment' = ArrayFindDefault(Head(queue).appEnvironments)

\* The await of line 13 resolves.
OrganizationsLoaded ==
    /\ process = "alive"
    /\ pc = "findOrganizations"
    /\ \E result \in FindOrganizationsResults : LoopOrganizations(result)
    /\ UNCHANGED <<store, phase, process, pending, txnSnapshot, runs, lastCall, history>>

\* The await of line 20 resolves and the nested loops run: one update per
\* AppVersion is issued and none is awaited (lines 24-35); then the outer
\* loop goes on.
IssueUpdates ==
    /\ process = "alive"
    /\ pc = "findApps"
    /\ \E versions \in FindAppsResults :
        /\ versions # <<>> => productionEnvironment # Undefined
        /\ pending' = pending \o
               IssuedUpdates(versions, Head(orgQueue), productionEnvironment)
        /\ issued' = [p \in DOMAIN issued |->
               issued[p] + Cardinality({i \in DOMAIN versions :
                               p = <<Head(orgQueue).id, versions[i]>>})]
    /\ LoopOrganizations(Tail(orgQueue))
    /\ UNCHANGED <<store, phase, process, txnSnapshot, runs, lastCall,
                   initial, afterFirstRun, rejected>>

\* The await of line 20 resolves and the first evaluation of line 31 reads
\* .id of undefined: a TypeError leaves backFillNewColumn and up().
ThrowTypeError ==
    /\ process = "alive"
    /\ pc = "findApps"
    /\ \E versions \in FindAppsResults : versions # <<>>
    /\ productionEnvironment = Undefined
    /\ pc' = "aborted"
    /\ error' = "TypeError"
    /\ UNCHANGED <<store, orgQueue, productionEnvironment, phase, process, pending,
                   txnSnapshot, runs, lastCall, history>>

\* The awaited load of line 13 or of line 20 rejects: the await throws and
\* the error leaves backFillNewColumn and up().
LoadRejected ==
    /\ process = "alive"
    /\ pc \in {"findOrganizations", "findApps"}
    /\ pc' = "aborted"
    /\ error' = "LoadFailure"
    /\ UNCHANGED <<store, orgQueue, productionEnvironment, phase, process, pending,
                   txnSnapshot, runs, lastCall, history>>

\* The store executes the oldest update in flight.
StoreApply ==
    /\ pending # <<>>
    /\ appVersions' = ApplyUpdate(appVersions, Head(pending))
    /\ pending' = Tail(pending)
    /\ UNCHANGED <<organizations, appEnvironments, apps, driver, phase, process,
                   txnSnapshot, runs, lastCall, history>>

\* The store rejects the oldest update in flight (WriteFailure).  Nobody
\* holds the promise of the update (lines 27-33): the rejection is unhandled
\* and ends the process, with the Driver wherever it stands.  A transaction
\* still open is lost with the connection, together with the updates not
\* yet executed; after the commit or the rollback the other updates in
\* flight stay with the store.
StoreReject ==
    /\ process = "alive"
    /\ pending # <<>>
    /\ rejected' = TRUE
    /\ process' = "exited"
    /\ IF phase = "running"
       THEN /\ phase' = "rolledBack"
            /\ appVersions' = txnSnapshot
            /\ pending' = <<>>
       ELSE /\ pending' = Tail(pending)
            /\ UNCHANGED <<phase, appVersions>>
    /\ UNCHANGED <<organizations, appEnvironments, apps, driver, txnSnapshot, runs,
                   lastCall, initial, afterFirstRun, issued>>

\* The store rejects the oldest update in flight of a process that has
\* ended: the update is lost.
StoreDrop ==
    /\ process = "exited"
    /\ pending # <<>>
    /\ pending' = Tail(pending)
    /\ UNCHANGED <<store, driver, phase, process, txnSnapshot, runs, lastCall, history>>

\* up() resolved: the framework commits the transaction.
Commit ==
    /\ process = "alive"
    /\ phase = "running"
    /\ pc = "done"
    /\ phase' = "committed"
    /\ UNCHANGED <<store, driver, process, pending, txnSnapshot, runs, lastCall, history>>

\* up() rejected: the framework rolls the transaction back.
Rollback ==
    /\ process = "alive"
    /\ phase = "running"
    /\ pc = "aborted"
    /\ phase' = "rolledBack"
    /\ appVersions' = txnSnapshot
    /\ UNCHANGED <<organizations, appEnvironments, apps, driver, process, pending,
                   txnSnapshot, runs, lastCall, history>>

\* A down() that undoes the backfill by clearing the column.
Down_ClearsColumn ==
    /\ phase \in {"idle", "committed", "rolledBack"}
    /\ lastCall' = "down"
    /\ appVersions' = [v \in DOMAIN appVersions |->
                          [appVersions[v] EXCEPT !.currentEnvironmentId = Null]]
    /\ UNCHANGED <<organizations, appEnvironments, apps, driver, phase, process, pending,
                   txnSnapshot, runs, history>>

\* Line 39: down() has an empty body and resolves.
Down ==
    /\ phase \in {"idle", "committed", "rolledBack"}
    /\ lastCall' = "down"
    /\ UNCHANGED <<store, driver, phase, process, pending, txnSnapshot, runs, history>>

Next ==
    \/ Up
    \/ OrganizationsLoaded
    \/ IssueUpdates
    \/ ThrowTypeError
    \/ LoadRejected
    \/ StoreApply
    \/ StoreReject
    \/ StoreDrop
    \/ Commit
    \/ Rollback
    \/ Down

Spec == Init /\ [][Next]_vars

\* While the process lives, the store answers every load the Driver awaits
\* (lines 13 and 20) and the segment that follows the await runs.  A process
\* ended by an unhandled rejection runs nothing more.
SpecFair ==
    /\ Spec
    /\ WF_vars(OrganizationsLoaded)
    /\ WF_vars(IssueUpdates)
    /\ WF_vars(ThrowTypeError)

\* ------------------------------------------------------------------ claims
OwnerOf(v) == apps[appVersions[v].appId].organizationId
DefaultIdOf(o) == CHOOSE e \in DefaultsOf(o) : TRUE
ExactlyOneDefaultEach == \A o \in organizations : Cardinality(DefaultsOf(o)) = 1
CurrentOf(versions) == [v \in DOMAIN versions |-> versions[v].currentEnvironmentId]
\* Every update of the latest run was executed by the store.
AllExecuted == pending = <<>> /\ ~rejected

\* C1: in a store where every Organization has exactly one default
\* environment, once up() has completed (and every update it issued was
\* executed), each AppVersion carries the default environment of the
\* Organization that owns its App.
C1_PerTenantAssignment ==
    (pc = "done" /\ AllExecuted /\ ExactlyOneDefaultEach) =>
        \A v \in DOMAIN appVersions :
            appVersions[v].currentEnvironmentId = DefaultIdOf(OwnerOf(v))

\* C2: a run that iterates over an Organization without a default
\* environment never completes: up() can only resolve when every
\* Organization of the store has a default environment.
C2_NoDefaultAborts ==
    pc = "done" => \A o \in organizations : DefaultsOf(o) # {}

\* C3: when the run aborts on an Organization O without a default
\* environment, no update was issued during the pass of O, and no AppVersion
\* of the Apps of O was changed by the run.
C3_FailingOrganizationUntouched ==
    (pc = "aborted" /\ error = "TypeError" /\ phase = "running") =>
        /\ \A i \in DOMAIN pending : pending[i].organizationId # Head(orgQueue).id
        /\ \A v \in DOMAIN appVersions :
              OwnerOf(v) = Head(orgQueue).id => appVersions[v] = txnSnapshot[v]

\* C4: when up() has resolved, no update issued by the Driver is pending.
C4_NoPendingWhenDone ==
    pc = "done" => pending = <<>>

\* C5: after a run that completed successfully (committed, nothing left in
\* flight), every AppVersion has a non-null currentEnvironmentId.
C5_AllPopulatedAfterSuccess ==
    (phase = "committed" /\ pending = <<>>) =>
        \A v \in DOMAIN appVersions : appVersions[v].currentEnvironmentId # Null

\* C6: with exactly one default environment per Organization, a second
\* successful run (both runs with every update executed) leaves every
\* AppVersion with the currentEnvironmentId the first run left.
C6_Idempotent ==
    (/\ runs = 2 /\ phase = "committed" /\ AllExecuted
     /\ afterFirstRun.phase = "committed" /\ ~afterFirstRun.rejected
     /\ ExactlyOneDefaultEach) =>
        CurrentOf(appVersions) = CurrentOf(afterFirstRun.appVersions)

\* C7: when the store rejects an update of the run, up() does not complete
\* successfully (it has not resolved), and once an update was rejected the
\* Driver issues no further update.
C7_WriteFailureIsFatal ==
    [][/\ rejected' => pc' # "done"
       /\ rejected => Len(pending') <= Len(pending)]_vars

\* C8: after the rollback of an aborted run every AppVersion is as it was
\* before the run, and a run in which the store rejected an update commits
\* none of its updates.
C8_AllOrNothing ==
    /\ phase = "rolledBack" => appVersions = txnSnapshot
    /\ (phase = "committed" /\ rejected) => appVersions = txnSnapshot

\* C9: in every state (during and after any run, successful or aborted) the
\* Organization, AppEnvironment, App and AppVersion records are the initial
\* ones, with the same isDefault flags and the same owners: only
\* currentEnvironmentId of an AppVersion may differ.
C9_OnlyCurrentEnvironmentIdChanges ==
    /\ organizations = initial.organizations
    /\ appEnvironments = initial.appEnvironments
    /\ apps = initial.apps
    /\ DOMAIN appVersions = DOMAIN initial.appVersions
    /\ \A v \in DOMAIN appVersions : appVersions[v].appId = initial.appVersions[v].appId

\* A committed run changed the currentEnvironmentId of an AppVersion while
\* some Organization owns no App.
C9_Witness ==
    /\ phase = "committed"
    /\ \E v \in DOMAIN appVersions :
          appVersions[v].currentEnvironmentId # initial.appVersions[v].currentEnvironmentId
    /\ \E o \in organizations : \A a \in DOMAIN apps : apps[a].organizationId # o

\* C10: a call of down() changes no record of the store, issues no update
\* and leaves the framework and the Driver where they were.
C10_DownIsNoOp ==
    [][(lastCall # "down" /\ lastCall' = "down") =>
           (store' = store /\ pending' = pending /\ phase' = phase /\ driver' = driver)]_vars

\* down() was called after a committed run that populated an AppVersion.
C10_Witness ==
    /\ lastCall = "down"
    /\ phase = "committed"
    /\ \E v \in DOMAIN appVersions :
          /\ initial.appVersions[v].currentEnvironmentId = Null
          /\ appVersions[v].currentEnvironmentId # Null

\* The rows of the environments of o as the store returns them in order s.
LoadedEnvironments(s) ==
    [k \in 1..Len(s) |-> [id |-> s[k], isDefault |-> appEnvironments[s[k]].isDefault]]

\* C11: for an Organization with more than one default-flagged environment,
\* the environment the run resolves (line 19) does not depend on the order
\* in which the store returned the Organization's environments: a run over
\* the same store contents that is given the same rows in any other order
\* resolves the same single environment.
C11_ResolutionIndependentOfOrder ==
    (pc = "findApps" /\ Cardinality(DefaultsOf(Head(orgQueue).id)) > 1) =>
        \A s \in Orders(EnvironmentsOf(Head(orgQueue).id)) :
            ArrayFindDefault(LoadedEnvironments(s)) = productionEnvironment

\* C12: in a run over two or more Organizations, each with exactly one
\* default environment, that has completed with every update executed,
\* every AppVersion of the store carries the default environment of the
\* Organization iterated last.
C12_LastOrganizationWins ==
    (/\ pc = "done" /\ AllExecuted
     /\ Cardinality(organizations) >= 2 /\ ExactlyOneDefaultEach) =>
        \A v \in DOMAIN appVersions :
            appVersions[v].currentEnvironmentId = productionEnvironment.id

\* A completed run over two Organizations left an AppVersion with the
\* default of the Organization iterated last, which does not own it.
C12_Witness ==
    /\ pc = "done" /\ AllExecuted
    /\ Cardinality(organizations) >= 2 /\ ExactlyOneDefaultEach
    /\ \E v \in DOMAIN appVersions :
          /\ appVersions[v].currentEnvironmentId = productionEnvironment.id
          /\ appVersions[v].currentEnvironmentId # DefaultIdOf(OwnerOf(v))
          /\ txnSnapshot[v].currentEnvironmentId # productionEnvironment.id

AtMostOneDefaultEach == \A o \in organizations : Cardinality(DefaultsOf(o)) <= 1

\* C13: two successful runs that start from the same currentEnvironmentId
\* values (the first run ended where it began) and differ only in the order
\* in which the store returns the Organizations end with the same
\* currentEnvironmentId on every AppVersion.  At most one default per
\* Organization, so that the order of the environments plays no part.
C13_Reproducible ==
    (/\ runs = 2 /\ phase = "committed" /\ AllExecuted
     /\ afterFirstRun.phase = "committed" /\ ~afterFirstRun.rejected
     /\ CurrentOf(afterFirstRun.appVersions) = CurrentOf(initial.appVersions)
     /\ AtMostOneDefaultEach) =>
        CurrentOf(appVersions) = CurrentOf(afterFirstRun.appVersions)

\* C14: every update in flight carries the id of an environment of the
\* Organization in whose pass it was issued.
C14_PassScopedDefault ==
    \A i \in DOMAIN pending :
        /\ pending[i].currentEnvironmentId \in DOMAIN appEnvironments
        /\ appEnvironments[pending[i].currentEnvironmentId].organizationId =
               pending[i].organizationId

\* Updates of the passes of two different Organizations are in flight.
C14_Witness ==
    \E i, j \in DOMAIN pending :
        /\ i < j
        /\ pending[i].organizationId # pending[j].organizationId
        /\ pending[i].currentEnvironmentId # pending[j].currentEnvironmentId

\* C15: at most one update issued by the Driver is in flight.
C15_AtMostOneInFlight ==
    Len(pending) <= 1

IsDefaultEnvironment(e) == e \in DOMAIN appEnvironments /\ appEnvironments[e].isDefault

\* C16: the currentEnvironmentId of every AppVersion is the value it had
\* before the latest run or the id of an existing default-flagged
\* environment, and every update in flight carries such an id.
C16_WritesOnlyDefaults ==
    /\ \A v \in DOMAIN appVersions :
          \/ appVersions[v].currentEnvironmentId = txnSnapshot[v].currentEnvironmentId
          \/ IsDefaultEnvironment(appVersions[v].currentEnvironmentId)
    /\ \A i \in DOMAIN pending : IsDefaultEnvironment(pending[i].currentEnvironmentId)

\* An AppVersion was changed by the run to the default environment of an
\* Organization that also has a non-default environment.
C16_Witness ==
    \E v \in DOMAIN appVersions :
        /\ appVersions[v].currentEnvironmentId # txnSnapshot[v].currentEnvironmentId
        /\ IsDefaultEnvironment(appVersions[v].currentEnvironmentId)
        /\ \E e \in DOMAIN appEnvironments :
              /\ ~appEnvironments[e].isDefault
              /\ appEnvironments[e].organizationId =
                     appEnvironments[appVersions[v].currentEnvironmentId].organizationId

\* C17: every run of the Driver reaches done or aborted, and in a run that
\* reaches done exactly one update was issued for every pair of an
\* Organization and an AppVersion of the store (|Organizations| x
\* |AppVersions| updates in all).
C17_TerminatesWithOneWritePerPair ==
    /\ [](pc \in {"findOrganizations", "findApps"} => <>(pc \in {"done", "aborted"}))
    /\ [](pc = "done" =>
            /\ DOMAIN issued = organizations \X DOMAIN appVersions
            /\ \A p \in DOMAIN issued : issued[p] = 1)

\* C18: with exactly one Organization, which has exactly one default
\* environment, a run that completed successfully (committed, nothing left
\* in flight) leaves every AppVersion with the id of that environment.
C18_SingleTenant ==
    (/\ phase = "committed" /\ pending = <<>>
     /\ Cardinality(organizations) = 1 /\ ExactlyOneDefaultEach) =>
        \A v \in DOMAIN appVersions :
            \A o \in organizations :
                appVersions[v].currentEnvironmentId = DefaultIdOf(o)

====
